---------------------------- MODULE Spec2Model ----------------------------
(***************************************************************************)
(* Model of autoruns_windows.go: the path parser parsePath, the record     *)
(* builder stringToAutorun and the scan getAutoruns.                       *)
(*                                                                         *)
(* A Go string is a sequence of one-character strings.  Text that no       *)
(* operation of the program looks into (registry key names, the startup    *)
(* base path, the name desktop.ini) is kept as a single element.           *)
(***************************************************************************)
EXTENDS Integers, Sequences, FiniteSets, TLC

VARIABLES
    files,        \* the file system: the set of existing files (clean paths)
    expandFails,  \* whether registry.ExpandString returns an error
    deviceVolumes, \* whether path/filepath of the Go release the program is
                  \* built with takes \??\ , \\.\ , \\?\ and any \\ as
                  \* the start of a volume name (Go 1.20.11 / 1.21.4 on)
    raw,          \* stringToAutorun: entryValue
    toParse,      \* stringToAutorun: toParse
    meta,         \* stringToAutorun: entryType, entryLocation and entry
    pc,           \* position in stringToAutorun / parsePath
    entryValue,   \* parsePath: entryValue (rewritten by the normalisation)
    spaceIndex,   \* parsePath: spaceIndex
    executable,   \* parsePath: executable
    arguments,    \* parsePath: arguments
    err,          \* parsePath: the error returned
    calls,        \* number of exec.LookPath calls made by the search loop
    tried,        \* the candidates the search loop passed to exec.LookPath
    record,       \* stringToAutorun: the record returned
    phase,        \* getAutoruns: which source is being enumerated
    keyIdx,       \* index of the next run key / startup folder
    supplied,     \* every finding the sources supplied so far
    records       \* getAutoruns: records

vars == <<files, expandFails, deviceVolumes, raw, toParse, meta, pc, entryValue,
          spaceIndex,
          executable, arguments, err, calls, tried, record, phase, keyIdx,
          supplied, records>>

parseVars == <<raw, toParse, meta, pc, entryValue, spaceIndex, executable,
               arguments, err, calls, tried, record>>

scanVars == <<phase, keyIdx, supplied, records>>

-----------------------------------------------------------------------------
(* Bounds of the model *)

\* longest body appended to a head to form a raw value
MaxBody == 3
\* longest list of values one registry key or folder supplies
MaxValues == 2
\* largest number of findings the sources supply in one scan
MaxFindings == 2

-----------------------------------------------------------------------------
(* Go strings *)

\* s[lo:hi] is in range
SliceOK(s, lo, hi) == 0 <= lo /\ lo <= hi /\ hi <= Len(s)

\* s[lo:hi]
Slice(s, lo, hi) == SubSeq(s, lo + 1, hi)

\* s[lo:]
SliceFrom(s, lo) == SubSeq(s, lo + 1, Len(s))

\* strings.HasPrefix
HasPrefix(s, p) == Len(s) >= Len(p) /\ SubSeq(s, 1, Len(p)) = p

Upper == <<"A","B","C","D","E","F","G","H","I","J","K","L","M",
           "N","O","P","Q","R","S","T","U","V","W","X","Y","Z">>
Lower == <<"a","b","c","d","e","f","g","h","i","j","k","l","m",
           "n","o","p","q","r","s","t","u","v","w","x","y","z">>

ToLowerChar(c) ==
    IF \E i \in 1..Len(Upper) : Upper[i] = c
    THEN Lower[CHOOSE i \in 1..Len(Upper) : Upper[i] = c]
    ELSE c

\* strings.ToLower
ToLower(s) == [i \in 1..Len(s) |-> ToLowerChar(s[i])]

\* strings.Index: the first index of sub in s, -1 when absent
Index(s, sub) ==
    LET hits == {i \in 0..(Len(s) - Len(sub)) : Slice(s, i, i + Len(sub)) = sub}
    IN  IF hits = {} THEN -1 ELSE CHOOSE i \in hits : \A j \in hits : i <= j

\* strings.IndexAny: the first index of a character of chars in s
IndexAny(s, chars) ==
    LET hits == {i \in 0..(Len(s) - 1) : s[i + 1] \in chars}
    IN  IF hits = {} THEN -1 ELSE CHOOSE i \in hits : \A j \in hits : i <= j

\* strings.LastIndexAny
LastIndexAny(s, chars) ==
    LET hits == {i \in 0..(Len(s) - 1) : s[i + 1] \in chars}
    IN  IF hits = {} THEN -1 ELSE CHOOSE i \in hits : \A j \in hits : i >= j

\* strings.ContainsAny
ContainsAny(s, chars) == IndexAny(s, chars) >= 0

\* strings.Replace(s, old, new, -1) for a non-empty old: every
\* non-overlapping occurrence, left to right
RECURSIVE Replace(_, _, _)
Replace(s, old, new) ==
    IF Len(s) < Len(old) \/ Len(old) = 0 THEN s
    ELSE IF HasPrefix(s, old)
         THEN new \o Replace(SliceFrom(s, Len(old)), old, new)
         ELSE <<s[1]>> \o Replace(Tail(s), old, new)

\* the characters strings.TrimSpace removes, those of unicode.IsSpace; a
\* character that has no escape in a string here is written by its name
WhiteSpace ==
    {" ", "\t", "\n", "\r", "\f", "VT", "NEL", "NBSP",
     "U+1680", "U+2000", "U+2001", "U+2002", "U+2003", "U+2004", "U+2005",
     "U+2006", "U+2007", "U+2008", "U+2009", "U+200A", "U+2028", "U+2029",
     "U+202F", "U+205F", "U+3000"}

RECURSIVE TrimLeft(_)
TrimLeft(s) ==
    IF s # <<>> /\ s[1] \in WhiteSpace THEN TrimLeft(Tail(s)) ELSE s

RECURSIVE TrimRight(_)
TrimRight(s) ==
    IF s # <<>> /\ s[Len(s)] \in WhiteSpace
    THEN TrimRight(SubSeq(s, 1, Len(s) - 1)) ELSE s

\* strings.TrimSpace
TrimSpace(s) == TrimRight(TrimLeft(s))

-----------------------------------------------------------------------------
(* The process environment and the file system *)

\* the process environment read by os.Getenv and registry.ExpandString:
\* SystemRoot stands for C:\Windows, V for a directory such as
\* C:\Program Files\ , ProgramData and AppData for the two profile roots
Environ ==
    (<<"SystemRoot">> :> <<"W">>) @@ (<<"V">> :> <<"a", "/">>) @@
    (<<"ProgramData">> :> <<"D">>) @@ (<<"AppData">> :> <<"U">>)

\* os.Getenv: the empty string for an unset variable
Getenv(name) == IF name \in DOMAIN Environ THEN Environ[name] ELSE <<>>

\* the value of a successful registry.ExpandString (ExpandEnvironmentStrings):
\* every %name% of a set variable is replaced by its value, a reference to
\* an unset variable is left as it is
RECURSIVE ExpandString(_)
ExpandString(s) ==
    IF s = <<>> THEN <<>>
    ELSE IF s[1] # "%" THEN <<s[1]>> \o ExpandString(Tail(s))
    ELSE LET rest == Tail(s)
             j == IndexAny(rest, {"%"})
         IN  IF j < 0 THEN s
             ELSE IF Slice(rest, 0, j) \in DOMAIN Environ
                  THEN Environ[Slice(rest, 0, j)] \o ExpandString(SliceFrom(rest, j + 1))
                  ELSE <<"%">> \o ExpandString(rest)

Separators == {"\\", "/"}

\* the elements of a path: the text between its separators
RECURSIVE SplitPath(_)
SplitPath(p) ==
    IF ~ContainsAny(p, Separators) THEN <<p>>
    ELSE <<Slice(p, 0, IndexAny(p, Separators))>>
             \o SplitPath(SliceFrom(p, IndexAny(p, Separators) + 1))

\* the elements that remain of a path: empty and "." elements go, a ".."
\* element takes the element before it along
RECURSIVE CleanElems(_, _, _)
CleanElems(elems, out, rooted) ==
    IF elems = <<>> THEN out
    ELSE CleanElems(Tail(elems),
                    IF Head(elems) = <<>> \/ Head(elems) = <<".">> THEN out
                    ELSE IF Head(elems) # <<".", ".">> THEN Append(out, Head(elems))
                    ELSE IF out # <<>> /\ out[Len(out)] # <<".", ".">>
                         THEN SubSeq(out, 1, Len(out) - 1)
                    ELSE IF rooted THEN out
                    ELSE Append(out, Head(elems)),
                    rooted)

RECURSIVE JoinElems(_)
JoinElems(elems) ==
    IF elems = <<>> THEN <<>>
    ELSE IF Len(elems) = 1 THEN elems[1]
    ELSE elems[1] \o <<"\\">> \o JoinElems(Tail(elems))

CleanJoined(rooted, body) ==
    IF rooted THEN <<"\\">> \o body
    ELSE IF body = <<>> THEN <<".">> ELSE body

\* filepath.Clean on Windows, for paths without a drive letter or UNC volume:
\* slashes become backslashes, repeated and trailing separators and "."
\* elements go, ".." elements are resolved, the empty path becomes "."
Clean(p) ==
    IF p = <<>> THEN <<".">>
    ELSE CleanJoined(p[1] \in Separators,
                     JoinElems(CleanElems(SplitPath(p), <<>>, p[1] \in Separators)))

\* filepath.Join of two elements: empty elements are ignored, the result
\* is cleaned
Join(dir, file) ==
    IF dir = <<>> /\ file = <<>> THEN <<>>
    ELSE Clean(IF dir = <<>> THEN file
               ELSE IF file = <<>> THEN dir
               ELSE dir \o <<"\\">> \o file)

RECURSIVE StripTrailingSeps(_)
StripTrailingSeps(p) ==
    IF p # <<>> /\ p[Len(p)] \in Separators
    THEN StripTrailingSeps(SubSeq(p, 1, Len(p) - 1)) ELSE p

isSlash(c) == c \in Separators

IsLetter(c) ==
    \E i \in 1..Len(Upper) : Upper[i] = c \/ Lower[i] = c

\* the index of the first separator of p at index from or later, or the
\* length of p
SlashFrom(p, from) ==
    IF IndexAny(SliceFrom(p, from), Separators) < 0 THEN Len(p)
    ELSE from + IndexAny(SliceFrom(p, from), Separators)

\* the end of the share name of the UNC path p whose host name ends at the
\* separator at index n
ShareEnd(p, n) ==
    IF n >= Len(p) - 1 THEN 0
    ELSE IF isSlash(p[n + 2]) \/ p[n + 2] = "." THEN 0
    ELSE SlashFrom(p, n + 1)

\* volumeNameLen up to Go 1.19: a drive letter, or \\host\share
DriveVolumeLen(p) ==
    IF Len(p) < 2 THEN 0
    ELSE IF p[2] = ":" /\ IsLetter(p[1]) THEN 2
    ELSE IF /\ Len(p) >= 5 /\ isSlash(p[1]) /\ isSlash(p[2])
            /\ ~isSlash(p[3]) /\ p[3] # "."
         THEN ShareEnd(p, SlashFrom(p, 3))
    ELSE 0

\* pathHasPrefixFold: p begins with prefix, letter case and the kind of
\* separator aside, and a longer p goes on with a separator
pathHasPrefixFold(p, prefix) ==
    /\ Len(p) >= Len(prefix)
    /\ \A i \in 1..Len(prefix) :
          IF isSlash(prefix[i]) THEN isSlash(p[i])
          ELSE ToLowerChar(prefix[i]) = ToLowerChar(p[i])
    /\ Len(p) > Len(prefix) => isSlash(p[Len(prefix) + 1])

\* uncLen: the index of the second separator of p at prefixLen or later
uncLen(p, prefixLen) ==
    IF SlashFrom(p, prefixLen) = Len(p) THEN Len(p)
    ELSE SlashFrom(p, SlashFrom(p, prefixLen) + 1)

\* volumeNameLen from Go 1.20.11 / 1.21.4 on: a drive, a device path
\* \\.\ , \\?\ or \??\ , or a UNC path
DeviceVolumeLen(p) ==
    IF Len(p) >= 2 /\ p[2] = ":" THEN 2
    ELSE IF Len(p) = 0 \/ ~isSlash(p[1]) THEN 0
    ELSE IF pathHasPrefixFold(p, <<"\\", "\\", ".", "\\", "U", "N", "C">>)
         THEN uncLen(p, 8)
    ELSE IF \/ pathHasPrefixFold(p, <<"\\", "\\", ".">>)
            \/ pathHasPrefixFold(p, <<"\\", "\\", "?">>)
            \/ pathHasPrefixFold(p, <<"\\", "?", "?">>)
         THEN (IF Len(p) = 3 THEN 3 ELSE SlashFrom(p, 4))
    ELSE IF Len(p) >= 2 /\ isSlash(p[2]) THEN uncLen(p, 2)
    ELSE 0

\* filepath.VolumeName, as the length of the volume name
volumeNameLen(p) ==
    IF deviceVolumes THEN DeviceVolumeLen(p) ELSE DriveVolumeLen(p)

WithoutVolume(q) == SliceFrom(q, volumeNameLen(q))

LastElement(q) ==
    IF q = <<>> THEN <<"\\">>
    ELSE SliceFrom(q, LastIndexAny(q, Separators) + 1)

\* filepath.Base: the last element of the path, behind the volume name
Base(p) ==
    IF p = <<>> THEN <<".">>
    ELSE LastElement(WithoutVolume(StripTrailingSeps(p)))

\* the directories of %PATH% and the one extension of %PATHEXT%
PathDirs == << <<"P">> >>
PathExt == <<".", "x">>

\* os/exec chkStat: the file exists (the file system resolves the path)
chkStat(file) == Clean(file) \in files

\* os/exec hasExt
hasExt(file) ==
    /\ LastIndexAny(file, {"."}) >= 0
    /\ LastIndexAny(file, {":", "\\", "/"}) < LastIndexAny(file, {"."})

NotFound == [ok |-> FALSE, path |-> <<>>]
Found(p) == [ok |-> TRUE, path |-> p]

\* os/exec findExecutable: the file itself when it names its extension,
\* otherwise the file with the extension of %PATHEXT%
findExecutable(file) ==
    IF hasExt(file) /\ chkStat(file) THEN Found(file)
    ELSE IF chkStat(file \o PathExt) THEN Found(file \o PathExt)
    ELSE NotFound

\* the first of the lookups that found a file
FirstFound(looked) ==
    LET hits == {i \in 1..Len(looked) : looked[i].ok}
    IN  IF hits = {} THEN NotFound
        ELSE looked[CHOOSE i \in hits : \A j \in hits : i <= j]

\* exec.LookPath: a name with a separator is looked up as it is, any other
\* name in the directories of %PATH% (the current directory holds no
\* executable)
LookPath(file) ==
    IF ContainsAny(file, {":", "\\", "/"}) THEN findExecutable(file)
    ELSE FirstFound([i \in 1..Len(PathDirs) |->
                        findExecutable(Join(PathDirs[i], file))])

Digest(path, algo, file) ==
    IF path # <<>> /\ file \in files THEN <<algo, ":">> \o file ELSE <<>>

\* files.HashFile: the digest of the file's content, the empty string when
\* the file cannot be read
HashFile(path, algo) == Digest(path, algo, Clean(path))

-----------------------------------------------------------------------------
(* parsePath *)

NoErr == "nil"
ErrEmptyPath == "empty path"
ErrExpand == "ExpandString failed"
ErrUnclosedQuote == "unclosed quote"
ErrNotFound == "executable not found"

Quote == "\""
KernelPrefix == <<"\\", "?", "?", "\\">>
SystemRootToken == <<"\\", "s", "y", "s", "t", "e", "m", "r", "o", "o", "t">>
System32Token == <<"s", "y", "s", "t", "e", "m", "3", "2">>
\* fmt.Sprintf("%s\\System32", os.Getenv("SystemRoot"))
System32Dir == Getenv(<<"SystemRoot">>) \o <<"\\", "S", "y", "s", "t", "e", "m", "3", "2">>

\* the kernel prefix \??\ is cut off
StripKernelPrefix(s) ==
    IF HasPrefix(s, KernelPrefix) THEN SliceFrom(s, 4) ELSE s

\* a leading \systemroot, in any case, is replaced by %SystemRoot%
ReplaceSystemRoot(s) ==
    IF Len(s) >= 11 /\ ToLower(Slice(s, 0, 11)) = SystemRootToken
    THEN Replace(s, Slice(s, 0, 11), Getenv(<<"SystemRoot">>))
    ELSE s

\* a leading system32, in any case, is replaced by %SystemRoot%\System32
ReplaceSystem32(s) ==
    IF Len(s) >= 8 /\ ToLower(Slice(s, 0, 8)) = System32Token
    THEN Replace(s, Slice(s, 0, 8), System32Dir)
    ELSE s

\* the replacements with the root tokens looked for before the kernel prefix
\* is cut off
NormalizeTokensFirst(s) == StripKernelPrefix(ReplaceSystem32(ReplaceSystemRoot(s)))

\* the three replacements that turn a kernel path into a user path
Normalize(s) == ReplaceSystem32(ReplaceSystemRoot(StripKernelPrefix(s)))

Failed(e) == [executable |-> <<>>, arguments |-> <<>>, err |-> e, panic |-> FALSE]

\* a quoted branch that starts the arguments at the closing quote
QuotedAtKeepingQuote(ev, closingQuote) ==
    IF closingQuote < 0
    THEN Failed(ErrUnclosedQuote)
    ELSE [executable |-> Slice(ev, 1, closingQuote + 1),
          arguments |-> SliceFrom(ev, closingQuote + 1),
          err |-> NoErr,
          panic |-> \/ ~SliceOK(ev, 1, closingQuote + 1)
                    \/ ~SliceOK(ev, closingQuote + 1, Len(ev))]

\* the quoted branch, given the index of the closing quote in ev[1:]
QuotedAt(ev, closingQuote) ==
    IF closingQuote < 0
    THEN Failed(ErrUnclosedQuote)
    ELSE [executable |-> Slice(ev, 1, closingQuote + 1),
          arguments |-> SliceFrom(ev, closingQuote + 2),
          err |-> NoErr,
          panic |-> \/ ~SliceOK(ev, 1, closingQuote + 1)
                    \/ ~SliceOK(ev, closingQuote + 2, Len(ev))]

\* a quoted branch that looks for the closing quote from the opening one on
QuotedSplitFromStart(ev) == QuotedAt(ev, Index(ev, <<Quote>>))

\* the quoted branch: the executable ends at the closing quote
QuotedSplit(ev) == QuotedAt(ev, Index(SliceFrom(ev, 1), <<Quote>>))

\* a boundary that is not moved past the space or tab it found
NextBoundaryStuck(ev, idx, nextSpace) ==
    IF nextSpace < 0 THEN Len(ev) ELSE idx + nextSpace

\* the next value of spaceIndex: the next space or tab after the character
\* at idx, or the length of the string
NextBoundary(ev, idx, nextSpace) ==
    IF nextSpace < 0 THEN Len(ev) ELSE idx + nextSpace + 1

\* an iteration that accepts its candidate without asking whether it resolves
CandidateAcceptFirst(ev, idx, newIndex, look) ==
    [spaceIndex |-> newIndex,
     candidate |-> Slice(ev, 0, newIndex),
     found |-> TRUE,
     executable |-> Slice(ev, 0, newIndex),
     arguments |-> IF newIndex < Len(ev)
                   THEN SliceFrom(ev, newIndex + 1) ELSE <<>>,
     panic |-> \/ ~SliceOK(ev, idx + 1, Len(ev))
               \/ ~SliceOK(ev, 0, newIndex)]

\* what one iteration of the search loop leaves, given its boundary and
\* what exec.LookPath returned for the candidate
Candidate(ev, idx, newIndex, look) ==
    [spaceIndex |-> newIndex,
     candidate |-> Slice(ev, 0, newIndex),
     found |-> look.ok,
     executable |-> look.path,
     arguments |-> IF look.ok /\ newIndex < Len(ev)
                   THEN SliceFrom(ev, newIndex + 1) ELSE <<>>,
     panic |-> \/ ~SliceOK(ev, idx + 1, Len(ev))
               \/ ~SliceOK(ev, 0, newIndex)
               \/ (look.ok /\ newIndex < Len(ev)
                     /\ ~SliceOK(ev, newIndex + 1, Len(ev)))]

LookedUp(ev, idx, newIndex) ==
    Candidate(ev, idx, newIndex, LookPath(Slice(ev, 0, newIndex)))

\* an iteration for which a tab does not end a candidate
SearchStepSpacesOnly(ev, idx) ==
    LookedUp(ev, idx,
             NextBoundary(ev, idx, IndexAny(SliceFrom(ev, idx + 1), {" "})))

\* one iteration of the search loop that does not return at its top: the
\* candidate is extended to the next space or tab, or to the whole string,
\* and looked up
SearchStep(ev, idx) ==
    LookedUp(ev, idx,
             NextBoundary(ev, idx, IndexAny(SliceFrom(ev, idx + 1), {" ", "\t"})))

\* the unquoted branch, from boundary idx on
RECURSIVE Search(_, _)
RECURSIVE SearchOn(_, _)
Search(ev, idx) ==
    IF idx = Len(ev) THEN Failed(ErrNotFound)
    ELSE SearchOn(ev, SearchStep(ev, idx))

SearchOn(ev, st) ==
    IF st.found
    THEN [executable |-> st.executable, arguments |-> st.arguments,
          err |-> NoErr, panic |-> st.panic]
    ELSE Search(ev, st.spaceIndex)

Cleaned(look) == IF look.ok THEN Found(Clean(look.path)) ELSE NotFound

\* cleanPath
cleanPath(file) == Cleaned(LookPath(file))

FinishWith(exe, args, v) ==
    [executable |-> IF v.ok THEN v.path ELSE exe,
     arguments |-> TrimSpace(args),
     err |-> NoErr,
     panic |-> FALSE]

\* the end of parsePath: the arguments are trimmed and the executable is
\* cleaned when cleanPath finds it
Finish(exe, args) == FinishWith(exe, args, cleanPath(exe))

Finished(r) ==
    IF r.err # NoErr THEN Failed(r.err) ELSE Finish(r.executable, r.arguments)

\* parsePath from the expanded string on
Resolve(ev) ==
    Finished(IF HasPrefix(ev, <<Quote>>) THEN QuotedSplit(ev) ELSE Search(ev, 0))

\* parsePath
parsePath(value) ==
    IF value = <<>> THEN Failed(ErrEmptyPath)
    ELSE IF expandFails THEN Failed(ErrExpand)
    ELSE Resolve(ExpandString(Normalize(value)))

-----------------------------------------------------------------------------
(* stringToAutorun *)

\* the Autorun record built from an image path and an argument string
NewAutorun(entryType, entryLocation, launchString, imagePath, argsString, entry) ==
    [Type |-> entryType,
     Location |-> entryLocation,
     ImagePath |-> imagePath,
     ImageName |-> Base(imagePath),
     Arguments |-> argsString,
     MD5 |-> HashFile(imagePath, "md5"),
     SHA1 |-> HashFile(imagePath, "sha1"),
     SHA256 |-> HashFile(imagePath, "sha256"),
     Entry |-> entry,
     LaunchString |-> launchString]

\* a record whose LaunchString is taken from the image path
BuildRecordLaunchFromImage(entryType, entryLocation, value, parse, entry, parsed) ==
    NewAutorun(entryType, entryLocation,
               IF parse /\ parsed.err = NoErr THEN parsed.executable ELSE value,
               IF parse /\ parsed.err = NoErr THEN parsed.executable ELSE value,
               IF parse /\ parsed.err = NoErr THEN parsed.arguments ELSE <<>>,
               entry)

\* a record that takes what parsePath returned whatever its error
BuildRecordIgnoringErr(entryType, entryLocation, value, parse, entry, parsed) ==
    NewAutorun(entryType, entryLocation, value,
               IF parse THEN parsed.executable ELSE value,
               IF parse THEN parsed.arguments ELSE <<>>,
               entry)

\* the body of stringToAutorun, given what parsePath returned
BuildRecord(entryType, entryLocation, value, parse, entry, parsed) ==
    NewAutorun(entryType, entryLocation, value,
               IF parse /\ parsed.err = NoErr THEN parsed.executable ELSE value,
               IF parse /\ parsed.err = NoErr THEN parsed.arguments ELSE <<>>,
               entry)

\* stringToAutorun
stringToAutorun(entryType, entryLocation, value, parse, entry) ==
    BuildRecord(entryType, entryLocation, value, parse, entry, parsePath(value))

-----------------------------------------------------------------------------
(* The inputs and environments of the model *)

HeadStrings ==
    { <<>>,
      KernelPrefix,
      SystemRootToken,
      System32Token,
      KernelPrefix \o <<"S", "y", "s", "t", "e", "m", "3", "2">>,
      KernelPrefix \o <<"\\", "S", "Y", "S", "T", "E", "M", "R", "O", "O", "T">>,
      <<"%", "V", "%">>,
      <<Quote, "a", Quote>> }

BodyPieces ==
    { <<"a">>, <<" ">>, <<"\t">>, <<"NBSP">>, <<Quote>>, <<"/">>, System32Token }

RECURSIVE BodiesOfLen(_)
BodiesOfLen(n) ==
    IF n = 0 THEN { <<>> }
    ELSE { p \o b : p \in BodyPieces, b \in BodiesOfLen(n - 1) }

Bodies == UNION { BodiesOfLen(n) : n \in 0..MaxBody }

\* the raw values: a head followed by a body
RawValues == { h \o b : h \in HeadStrings, b \in Bodies }

\* the executables a file system may hold
FileOnPath == <<"P", "\\", "a", ".", "x">>
SpacedFileOnPath == <<"P", "\\", "a", " ", "a", ".", "x">>
FileInSubdir == <<"a", "\\", "a", ".", "x">>
FileInSystem32 == <<"W", "\\", "S", "y", "s", "t", "e", "m", "3", "2", "\\", "a", ".", "x">>
FileInSystemRoot == <<"W", "\\", "a", ".", "x">>

FileSystems ==
    { {},
      {FileOnPath, SpacedFileOnPath},
      {SpacedFileOnPath, FileInSubdir},
      {FileInSubdir, FileInSystem32, FileInSystemRoot} }

\* the (entryType, entryLocation, entry) of a call of stringToAutorun
Metas ==
    { [entryType |-> "run_key", entryLocation |-> <<"LOCAL_MACHINE", "\\", "Run">>,
       entry |-> <<"n">>],
      [entryType |-> "startup", entryLocation |-> <<"D", "\\", "StartUp">>,
       entry |-> <<>>] }

NoRecord == [Type |-> "none"]

-----------------------------------------------------------------------------
(* One call of stringToAutorun, step by step *)

ScanIdle ==
    /\ phase = "idle"
    /\ keyIdx = 0
    /\ supplied = <<>>
    /\ records = <<>>

\* the call is one the package makes: the startup folders pass a clear
\* parse flag, the registry sources a set one; registry.ExpandString, which
\* is not called when the flag is clear, does not fail then
Init ==
    /\ files \in FileSystems
    /\ deviceVolumes \in BOOLEAN
    /\ raw \in RawValues
    /\ toParse \in BOOLEAN
    /\ expandFails \in (IF toParse THEN BOOLEAN ELSE {FALSE})
    /\ meta \in {m \in Metas : (m.entryType = "startup") <=> ~toParse}
    /\ pc = "start"
    /\ entryValue = raw
    /\ spaceIndex = 0
    /\ executable = <<>>
    /\ arguments = <<>>
    /\ err = NoErr
    /\ calls = 0
    /\ tried = <<>>
    /\ record = NoRecord
    /\ ScanIdle

Env == <<files, expandFails, deviceVolumes, raw, toParse, meta>>

\* the record stringToAutorun returns from the current state of parsePath
CurrentRecord(parsed) ==
    BuildRecord(meta.entryType, meta.entryLocation, raw, toParse, meta.entry, parsed)

\* toParse is clear: parsePath is not called
BuildUnparsed ==
    /\ pc = "start" /\ ~toParse
    /\ record' = CurrentRecord(Failed(NoErr))
    /\ pc' = "done"
    /\ UNCHANGED <<Env, entryValue, spaceIndex, executable, arguments, err,
                   calls, tried, scanVars>>

\* parsePath returns at once for the empty string
EmptyPath ==
    /\ pc = "start" /\ toParse /\ raw = <<>>
    /\ err' = ErrEmptyPath
    /\ pc' = "return"
    /\ UNCHANGED <<Env, entryValue, spaceIndex, executable, arguments,
                   calls, tried, record, scanVars>>

\* the replacements of the kernel prefix and the root tokens
NormalizeStep ==
    /\ pc = "start" /\ toParse /\ raw # <<>>
    /\ entryValue' = Normalize(raw)
    /\ pc' = "expand"
    /\ UNCHANGED <<Env, spaceIndex, executable, arguments, err,
                   calls, tried, record, scanVars>>

\* registry.ExpandString
ExpandStep ==
    /\ pc = "expand"
    /\ IF expandFails
       THEN /\ err' = ErrExpand
            /\ pc' = "return"
            /\ UNCHANGED entryValue
       ELSE /\ entryValue' = ExpandString(entryValue)
            /\ pc' = "resolve"
            /\ UNCHANGED err
    /\ UNCHANGED <<Env, spaceIndex, executable, arguments,
                   calls, tried, record, scanVars>>

QuotedTo(q) ==
    /\ pc' = IF q.panic THEN "panic"
             ELSE IF q.err # NoErr THEN "return" ELSE "finish"
    /\ err' = q.err
    /\ executable' = q.executable
    /\ arguments' = q.arguments

\* the quoted branch
QuotedStep ==
    /\ pc = "resolve" /\ HasPrefix(entryValue, <<Quote>>)
    /\ QuotedTo(QuotedSplit(entryValue))
    /\ UNCHANGED <<Env, entryValue, spaceIndex, calls, tried, record, scanVars>>

\* the search loop finds the whole string consumed
SearchFail ==
    /\ pc = "resolve" /\ ~HasPrefix(entryValue, <<Quote>>)
    /\ spaceIndex = Len(entryValue)
    /\ err' = ErrNotFound
    /\ pc' = "return"
    /\ UNCHANGED <<Env, entryValue, spaceIndex, executable, arguments,
                   calls, tried, record, scanVars>>

SearchTo(st) ==
    /\ pc' = IF st.panic THEN "panic"
             ELSE IF st.found THEN "finish" ELSE "resolve"
    /\ spaceIndex' = st.spaceIndex
    /\ executable' = st.executable
    /\ arguments' = st.arguments
    /\ calls' = calls + 1
    /\ tried' = Append(tried, st.candidate)

\* one iteration of the search loop
SearchTry ==
    /\ pc = "resolve" /\ ~HasPrefix(entryValue, <<Quote>>)
    /\ spaceIndex # Len(entryValue)
    /\ SearchTo(SearchStep(entryValue, spaceIndex))
    /\ UNCHANGED <<Env, entryValue, err, record, scanVars>>

FinishTo(f) ==
    /\ executable' = f.executable
    /\ arguments' = f.arguments

\* the arguments are trimmed, the executable is cleaned
FinishStep ==
    /\ pc = "finish"
    /\ FinishTo(Finish(executable, arguments))
    /\ pc' = "return"
    /\ UNCHANGED <<Env, entryValue, spaceIndex, err, calls, tried, record, scanVars>>

\* parsePath has returned: stringToAutorun builds the record
BuildParsed ==
    /\ pc = "return"
    /\ record' = CurrentRecord([executable |-> executable,
                                arguments |-> arguments, err |-> err])
    /\ pc' = "done"
    /\ UNCHANGED <<Env, entryValue, spaceIndex, executable, arguments, err,
                   calls, tried, scanVars>>

Next ==
    \/ BuildUnparsed
    \/ EmptyPath
    \/ NormalizeStep
    \/ ExpandStep
    \/ QuotedStep
    \/ SearchFail
    \/ SearchTry
    \/ FinishStep
    \/ BuildParsed

Spec == Init /\ [][Next]_vars

-----------------------------------------------------------------------------
(* getAutoruns: the scan of the run keys, the services and the startup     *)
(* folders                                                                 *)

\* registryToString, of the registry roots HKLM and HKCU
registryToString(reg) ==
    IF reg = "HKLM" THEN "LOCAL_MACHINE"
    ELSE IF reg = "HKCU" THEN "CURRENT_USER"
    ELSE ""

Regs == <<"HKLM", "HKCU">>

KeyNames ==
    <<"Software\\Microsoft\\Windows\\CurrentVersion\\Run",
      "Software\\Microsoft\\Windows\\CurrentVersion\\RunOnce",
      "Software\\Wow6432Node\\Microsoft\\Windows\\CurrentVersion\\Run",
      "Software\\Wow6432Node\\Microsoft\\Windows\\CurrentVersion\\RunOnce">>

\* the i-th key of the nested loops over regs and keyNames
RunKey(i) ==
    [reg |-> Regs[((i - 1) \div Len(KeyNames)) + 1],
     keyName |-> KeyNames[((i - 1) % Len(KeyNames)) + 1]]

NumRunKeys == Len(Regs) * Len(KeyNames)

\* fmt.Sprintf("%s\\%s", registryToString(reg), keyName)
ImageLocation(reg, keyName) == <<registryToString(reg), "\\", keyName>>

servicesKey == "System\\CurrentControlSet\\Services"
startupBasepath == <<"Microsoft\\Windows\\Start Menu\\Programs\\StartUp">>

\* the startup folders, in the order they are listed
StartupPaths ==
    <<Join(Getenv(<<"ProgramData">>), startupBasepath),
      Join(Getenv(<<"AppData">>), startupBasepath)>>

\* the file systems a scan runs on
ScanFileSystems == { {}, {FileOnPath, SpacedFileOnPath} }

\* the values a registry read may return
ScanValues == { <<>>, <<"a", " ", "a">>, <<Quote, "a", Quote, " ", "a">> }

\* a value of a run key: its name, and its string value when
\* GetStringValue returns one
RunValues ==
    { [name |-> <<"n">>, value |-> v, readable |-> TRUE] : v \in ScanValues }
        \cup { [name |-> <<"d">>, value |-> <<>>, readable |-> FALSE] }

\* a subkey of the services key: its name, and its ImagePath value when
\* the subkey opens and GetStringValue returns one
ServiceValues ==
    { [name |-> <<"s">>, value |-> v, readable |-> TRUE] : v \in ScanValues }
        \cup { [name |-> <<"t">>, value |-> <<>>, readable |-> FALSE] }

\* the files of a startup folder
StartupFiles == { <<"desktop.ini">>, <<"a", ".", "x">> }

RECURSIVE ListsOfLen(_, _)
ListsOfLen(S, n) ==
    IF n = 0 THEN { <<>> }
    ELSE { <<x>> \o l : x \in S, l \in ListsOfLen(S, n - 1) }

\* the lists of at most MaxValues elements of S
Lists(S) == UNION { ListsOfLen(S, n) : n \in 0..MaxValues }

\* what an enumeration returns: an error, or a list of items
Reads(S) ==
    { [status |-> "open failed", items |-> <<>>],
      [status |-> "list failed", items |-> <<>>] }
        \cup { [status |-> "ok", items |-> l] : l \in Lists(S) }

\* the findings a source supplied, as they are remembered for the scan
Findings(entryType, location, items, values) ==
    [i \in 1..Len(items) |->
        [type |-> entryType, location |-> location, name |-> items[i].name,
         value |-> values[i], readable |-> items[i].readable]]

\* the loop over the value names of one run key
RECURSIVE RunKeyRecords(_, _)
RunKeyRecords(location, items) ==
    IF items = <<>> THEN <<>>
    ELSE (IF ~Head(items).readable \/ Head(items).value = <<>> THEN <<>>
          ELSE <<stringToAutorun("run_key", location, Head(items).value,
                                 TRUE, Head(items).name)>>)
         \o RunKeyRecords(location, Tail(items))

\* a loop over the subkeys that passes over an empty ImagePath
RECURSIVE ServiceRecordsSkippingEmpty(_)
ServiceRecordsSkippingEmpty(items) ==
    IF items = <<>> THEN <<>>
    ELSE (IF ~Head(items).readable \/ Head(items).value = <<>> THEN <<>>
          ELSE <<stringToAutorun("service",
                                 ImageLocation("HKLM", servicesKey) \o <<"\\">>
                                     \o Head(items).name,
                                 Head(items).value, TRUE, <<>>)>>)
         \o ServiceRecordsSkippingEmpty(Tail(items))

\* the loop over the subkeys of the services key
RECURSIVE ServiceRecords(_)
ServiceRecords(items) ==
    IF items = <<>> THEN <<>>
    ELSE (IF ~Head(items).readable THEN <<>>
          ELSE <<stringToAutorun("service",
                                 ImageLocation("HKLM", servicesKey) \o <<"\\">>
                                     \o Head(items).name,
                                 Head(items).value, TRUE, <<>>)>>)
         \o ServiceRecords(Tail(items))

\* the loop over the files of one startup folder
RECURSIVE StartupRecords(_, _)
StartupRecords(startupPath, names) ==
    IF names = <<>> THEN <<>>
    ELSE (IF Head(names) = <<"desktop.ini">> THEN <<>>
          ELSE <<stringToAutorun("startup", startupPath,
                                 Join(startupPath, Head(names)), FALSE, <<>>)>>)
         \o StartupRecords(startupPath, Tail(names))

ScanInit ==
    /\ files \in ScanFileSystems
    /\ expandFails \in BOOLEAN
    /\ deviceVolumes \in BOOLEAN
    /\ raw = <<>>
    /\ toParse = FALSE
    /\ meta \in { m \in Metas : m.entryType = "run_key" }
    /\ pc = "idle"
    /\ entryValue = <<>>
    /\ spaceIndex = 0
    /\ executable = <<>>
    /\ arguments = <<>>
    /\ err = NoErr
    /\ calls = 0
    /\ tried = <<>>
    /\ record = NoRecord
    /\ phase = "run_keys"
    /\ keyIdx = 1
    /\ supplied = <<>>
    /\ records = <<>>

\* windowsGetCurrentVersionRun, one key of its loops at a time
ScanRunKey ==
    /\ phase = "run_keys"
    /\ \E read \in Reads(RunValues) :
          /\ Len(supplied) + Len(read.items) <= MaxFindings
          /\ records' = records \o
                 RunKeyRecords(ImageLocation(RunKey(keyIdx).reg, RunKey(keyIdx).keyName),
                               read.items)
          /\ supplied' = supplied \o
                 Findings("run_key",
                          ImageLocation(RunKey(keyIdx).reg, RunKey(keyIdx).keyName),
                          read.items,
                          [i \in 1..Len(read.items) |-> read.items[i].value])
    /\ IF keyIdx < NumRunKeys
       THEN keyIdx' = keyIdx + 1 /\ UNCHANGED phase
       ELSE keyIdx' = 1 /\ phase' = "services"
    /\ UNCHANGED <<files, expandFails, deviceVolumes, parseVars>>

\* windowsGetServices
ScanServices ==
    /\ phase = "services"
    /\ \E read \in Reads(ServiceValues) :
          /\ Len(supplied) + Len(read.items) <= MaxFindings
          /\ records' = records \o ServiceRecords(read.items)
          /\ supplied' = supplied \o
                 Findings("service", ImageLocation("HKLM", servicesKey),
                          read.items,
                          [i \in 1..Len(read.items) |-> read.items[i].value])
    /\ phase' = "startup"
    /\ UNCHANGED <<keyIdx, files, expandFails, deviceVolumes, parseVars>>

\* windowsGetStartupFiles, one folder at a time
ScanStartupFolder ==
    /\ phase = "startup"
    /\ \E read \in Reads(StartupFiles) :
          /\ Len(supplied) + Len(read.items) <= MaxFindings
          /\ records' = records \o StartupRecords(StartupPaths[keyIdx], read.items)
          /\ supplied' = supplied \o
                 Findings("startup", StartupPaths[keyIdx],
                          [i \in 1..Len(read.items) |->
                              [name |-> read.items[i], readable |-> TRUE]],
                          [i \in 1..Len(read.items) |->
                              Join(StartupPaths[keyIdx], read.items[i])])
    /\ IF keyIdx < Len(StartupPaths)
       THEN keyIdx' = keyIdx + 1 /\ UNCHANGED phase
       ELSE keyIdx' = 1 /\ phase' = "done"
    /\ UNCHANGED <<files, expandFails, deviceVolumes, parseVars>>

\* getAutoruns
ScanNext == ScanRunKey \/ ScanServices \/ ScanStartupFolder

ScanSpec == ScanInit /\ [][ScanNext]_vars

-----------------------------------------------------------------------------
(* What the claims speak of *)

\* parsePath has left the branch it took on the normalized string, which
\* entryValue then holds
Parsed ==
    /\ toParse
    /\ pc \in {"finish", "return", "done", "panic"}
    /\ err \notin {ErrEmptyPath, ErrExpand}

IsQuoted(ev) == ev # <<>> /\ ev[1] = Quote

HasClosingQuote(ev) == \E i \in 2..Len(ev) : ev[i] = Quote

\* the position of the first quote after the opening one
ClosingPos(ev) ==
    CHOOSE i \in 2..Len(ev) : ev[i] = Quote /\ \A j \in 2..(i - 1) : ev[j] # Quote

\* <exe> and <args> of "<exe>" <args>
QuotedExe(ev) == SubSeq(ev, 2, ClosingPos(ev) - 1)
QuotedArgs(ev) == SubSeq(ev, ClosingPos(ev) + 1, Len(ev))

\* s without its leading and trailing whitespace
TrimmedOf(s) ==
    LET keep == {i \in 1..Len(s) : s[i] \notin WhiteSpace}
    IN  IF keep = {} THEN <<>>
        ELSE SubSeq(s, CHOOSE i \in keep : \A j \in keep : i <= j,
                       CHOOSE i \in keep : \A j \in keep : i >= j)

\* the lengths of the whitespace-delimited prefixes of ev: up to each space
\* or tab, and the whole string
PrefixLengths(ev) ==
    {n \in 0..(Len(ev) - 1) : ev[n + 1] \in {" ", "\t"}} \cup {Len(ev)}

\* those of them the Executable Locator resolves
ResolvingLengths(ev) ==
    {n \in PrefixLengths(ev) : LookPath(SubSeq(ev, 1, n)).ok}

ShortestResolving(ev) ==
    CHOOSE n \in ResolvingLengths(ev) : \A m \in ResolvingLengths(ev) : n <= m

\* what the Locator resolves a candidate to, and that path after cleanup:
\* resolved again and cleaned, or left as it is when it does not resolve
ResolutionOf(c) == LookPath(c).path
CleanedResolutionOf(c) ==
    IF LookPath(ResolutionOf(c)).ok
    THEN Clean(LookPath(ResolutionOf(c)).path)
    ELSE ResolutionOf(c)

\* the text after the whitespace character that ends the prefix of length n
TextAfter(ev, n) == SubSeq(ev, n + 2, Len(ev))

\* the candidates were tried in strictly increasing length
TriedIncreasing ==
    \A k \in 1..(Len(tried) - 1) : Len(tried[k]) < Len(tried[k + 1])

BeginsWithToken(s, token) ==
    Len(s) >= Len(token) /\ ToLower(SubSeq(s, 1, Len(token))) = token

\* the number of places where t occurs in s
Occurrences(s, t) ==
    Cardinality({i \in 1..(Len(s) - Len(t) + 1) : SubSeq(s, i, i + Len(t) - 1) = t})

-----------------------------------------------------------------------------
(* The claims *)

\* C1: in every record stringToAutorun returns, LaunchString is the raw
\* value it was given, whatever the parse flag and the outcome of parsePath
C1_LaunchStringIsRaw ==
    pc = "done" => record.LaunchString = raw

C1_Witness ==
    /\ pc = "done" /\ toParse /\ err = NoErr
    /\ record.ImagePath # raw /\ record.Arguments # <<>>
    /\ record.LaunchString = raw

\* C2: stringToAutorun always returns a record; when the parse flag is clear
\* or parsePath returned an error, ImagePath is the raw value and Arguments
\* is empty, so an empty raw value gives an empty ImagePath
C2_DegradedRecord ==
    /\ pc # "panic"
    /\ pc = "done" =>
          /\ record # NoRecord
          /\ (~toParse \/ err # NoErr) =>
                record.ImagePath = raw /\ record.Arguments = <<>>
          /\ raw = <<>> =>
                record.ImagePath = <<>> /\ record.Arguments = <<>>

C2_Witness ==
    /\ pc = "done" /\ toParse /\ err = ErrNotFound /\ calls >= 2
    /\ record.ImagePath = raw /\ raw # <<>>

\* C3, as claimed: for a normalized input "<exe>" <args>, parsePath returns
\* <exe> exactly and <args> trimmed, whether or not the Locator resolves <exe>
C3_QuotedExeVerbatim ==
    (Parsed /\ IsQuoted(entryValue) /\ HasClosingQuote(entryValue)
        /\ pc \in {"return", "done"}) =>
        /\ err = NoErr
        /\ executable = QuotedExe(entryValue)
        /\ arguments = TrimmedOf(QuotedArgs(entryValue))

\* C3, amended: for a normalized input "<exe>" <args>, parsePath returns
\* <args> trimmed, and as the executable <exe> exactly when the Locator does
\* not resolve <exe>, and the cleaned path the Locator resolves <exe> to
\* when it does
C3_QuotedExeCleaned ==
    (Parsed /\ IsQuoted(entryValue) /\ HasClosingQuote(entryValue)
        /\ pc \in {"return", "done"}) =>
        /\ err = NoErr
        /\ executable = IF LookPath(QuotedExe(entryValue)).ok
                        THEN Clean(LookPath(QuotedExe(entryValue)).path)
                        ELSE QuotedExe(entryValue)
        /\ arguments = TrimmedOf(QuotedArgs(entryValue))

C3_Witness ==
    /\ Parsed /\ pc = "return" /\ IsQuoted(entryValue) /\ err = NoErr
    /\ LookPath(QuotedExe(entryValue)).ok
    /\ executable # QuotedExe(entryValue)
    /\ arguments # <<>>
    /\ arguments # QuotedArgs(entryValue)

\* C4, as claimed: for an unquoted normalized input the candidates are tried
\* in strictly increasing length, the shortest whitespace-delimited prefix
\* the Locator resolves is accepted, the executable returned is what the
\* Locator resolved that prefix to, and the arguments are the text after the
\* whitespace character ending the prefix, trimmed
C4_ShortestPrefixResolution ==
    (Parsed /\ ~IsQuoted(entryValue) /\ pc \in {"return", "done"}) =>
        /\ TriedIncreasing
        /\ ResolvingLengths(entryValue) # {} =>
              /\ err = NoErr
              /\ executable =
                    ResolutionOf(SubSeq(entryValue, 1, ShortestResolving(entryValue)))
              /\ arguments =
                    TrimmedOf(TextAfter(entryValue, ShortestResolving(entryValue)))

\* C4, amended: as claimed, but the executable returned is what the Locator
\* resolved the prefix to after cleanup by cleanPath
C4_ShortestPrefixCleaned ==
    (Parsed /\ ~IsQuoted(entryValue) /\ pc \in {"return", "done"}) =>
        /\ TriedIncreasing
        /\ \A k \in 1..Len(tried) : Len(tried[k]) \in PrefixLengths(entryValue)
        /\ ResolvingLengths(entryValue) # {} =>
              /\ err = NoErr
              /\ tried[Len(tried)] =
                    SubSeq(entryValue, 1, ShortestResolving(entryValue))
              /\ executable =
                    CleanedResolutionOf(
                        SubSeq(entryValue, 1, ShortestResolving(entryValue)))
              /\ arguments =
                    TrimmedOf(TextAfter(entryValue, ShortestResolving(entryValue)))

C4_Witness ==
    /\ Parsed /\ ~IsQuoted(entryValue) /\ pc = "return" /\ err = NoErr
    /\ Cardinality(ResolvingLengths(entryValue)) >= 2
    /\ executable # tried[Len(tried)]
    /\ arguments # <<>>

\* C5: a normalized input that begins with a quote and holds no second quote
\* makes parsePath return the unclosed-quote error with an empty executable
\* and empty arguments, without any candidate being looked up
C5_UnclosedQuote ==
    (Parsed /\ IsQuoted(entryValue) /\ ~HasClosingQuote(entryValue)) =>
        /\ pc \in {"return", "done"}
        /\ err = ErrUnclosedQuote
        /\ executable = <<>> /\ arguments = <<>>
        /\ calls = 0 /\ tried = <<>>

C5_Witness ==
    /\ Parsed /\ pc = "done" /\ err = ErrUnclosedQuote
    /\ Len(entryValue) >= 3
    /\ record.ImagePath = raw

\* C6: for a raw value that begins with system32 in any case, the root-token
\* step yields %SystemRoot%\System32 followed by the remainder unchanged
C6_OnlyLeadingToken ==
    (pc = "expand" /\ BeginsWithToken(raw, System32Token)) =>
        entryValue = System32Dir \o SubSeq(raw, Len(System32Token) + 1, Len(raw))

\* C7, as claimed: a non-empty ImagePath is a path the Locator resolves
C7_ImagePathResolved ==
    (pc = "done" /\ record.ImagePath # <<>>) => LookPath(record.ImagePath).ok

\* C7, amended: a non-empty ImagePath is a path the Locator resolves when the
\* parse flag is set, parsePath returned no error, and the executable was
\* either unquoted or a quoted one the Locator resolves
C7_ParsedImagePathResolved ==
    (/\ pc = "done" /\ record.ImagePath # <<>>
     /\ toParse /\ err = NoErr
     /\ IsQuoted(entryValue) => LookPath(QuotedExe(entryValue)).ok) =>
        LookPath(record.ImagePath).ok

C7_Witness ==
    /\ pc = "done" /\ toParse /\ err = NoErr /\ ~IsQuoted(entryValue)
    /\ record.ImagePath # <<>>
    /\ record.ImagePath # tried[Len(tried)]
    /\ LookPath(record.ImagePath).ok

\* a finding whose value could be read
Readable(f) == f.readable

\* a finding the scan does not pass over: its value could be read, and it is
\* neither a run-key value that is the empty string nor a startup-folder
\* file named desktop.ini
Kept(f) ==
    /\ f.readable
    /\ ~(f.type = "run_key" /\ f.value = <<>>)
    /\ ~(f.type = "startup" /\ f.name = <<"desktop.ini">>)

\* the records are those of the findings fs, one each and in their order
OneRecordEach(fs) ==
    /\ Len(records) = Len(fs)
    /\ \A i \in 1..Len(fs) :
          /\ i <= Len(records)
          /\ records[i].Type = fs[i].type
          /\ records[i].LaunchString = fs[i].value

\* C8, as claimed: every finding a source supplies yields exactly one record
\* of getAutoruns, whatever its raw value
C8_EveryFindingOneRecord ==
    OneRecordEach(SelectSeq(supplied, Readable))

\* C8, amended: every finding a source supplies yields exactly one record of
\* getAutoruns, in the order supplied, except a run-key value that is the
\* empty string and a startup-folder file named desktop.ini, which yield
\* none; a service ImagePath that is empty, and a finding that does not
\* parse, yield their record
C8_EveryKeptFindingOneRecord ==
    OneRecordEach(SelectSeq(supplied, Kept))

C8_Witness ==
    /\ phase = "done"
    /\ Len(records) = 1 /\ Len(supplied) = 2
    /\ records[1].Type = "service" /\ records[1].LaunchString = <<>>
    /\ \E i \in 1..Len(supplied) : supplied[i].readable /\ ~Kept(supplied[i])

\* C9: the kernel prefix is cut off before the root tokens are looked for:
\* behind the prefix a root token is substituted, and without a root token
\* the raw value loses its first four characters and nothing else
C9_PrefixBeforeTokens ==
    (pc = "expand" /\ HasPrefix(raw, KernelPrefix)) =>
        IF BeginsWithToken(SliceFrom(raw, 4), SystemRootToken)
        THEN /\ HasPrefix(entryValue, Getenv(<<"SystemRoot">>))
             /\ Occurrences(SliceFrom(raw, 4), Slice(raw, 4, 15)) = 1 =>
                   entryValue = Getenv(<<"SystemRoot">>) \o SliceFrom(raw, 15)
        ELSE IF BeginsWithToken(SliceFrom(raw, 4), System32Token)
        THEN /\ HasPrefix(entryValue, System32Dir)
             /\ Occurrences(SliceFrom(raw, 4), Slice(raw, 4, 12)) = 1 =>
                   entryValue = System32Dir \o SliceFrom(raw, 12)
        ELSE entryValue = SliceFrom(raw, 4)

C9_Witness ==
    /\ pc = "expand" /\ HasPrefix(raw, KernelPrefix)
    /\ BeginsWithToken(SliceFrom(raw, 4), System32Token)
    /\ Len(raw) > 12
    /\ entryValue = System32Dir \o SliceFrom(raw, 12)

\* the number of spaces and tabs of ev
SpaceCount(ev) == Cardinality({i \in 1..Len(ev) : ev[i] \in {" ", "\t"}})

\* C10: parsePath never slices out of range; the search loop moves its
\* boundary forward on every iteration and never past the end of the string,
\* so it ends; it looks up at most one candidate per space or tab and one
\* more, and returns the executable-not-found error exactly when no
\* whitespace-delimited prefix resolves
C10_SearchTerminates ==
    /\ pc # "panic"
    /\ spaceIndex <= Len(entryValue)
    /\ tried # <<>> => Len(tried[Len(tried)]) = spaceIndex
    /\ TriedIncreasing
    /\ calls = Len(tried)
    /\ calls <= SpaceCount(entryValue) + 1
    /\ (Parsed /\ ~IsQuoted(entryValue)) =>
          /\ err \in {NoErr, ErrNotFound}
          /\ err = ErrNotFound <=> ResolvingLengths(entryValue) = {}

C10_Witness ==
    /\ Parsed /\ pc = "return" /\ ~IsQuoted(entryValue)
    /\ err = ErrNotFound
    /\ calls = 3
    /\ calls = SpaceCount(entryValue) + 1

-----------------------------------------------------------------------------
(* The step-by-step run and the function *)

\* the step-by-step run returns what the function returns
StepsAgree ==
    pc = "done" =>
        record = stringToAutorun(meta.entryType, meta.entryLocation, raw,
                                 toParse, meta.entry)

=============================================================================
